---- MODULE Spec2Model ----
(***************************************************************************)
(* A model of echopy/processing/get_background.py: derobertis(), the       *)
(* background-noise estimator of De Robertis and Higginbottom (2007).      *)
(*                                                                         *)
(* One call of derobertis is a run of the state machine: Init is the call  *)
(* with its arguments bound, every action is one block of the function     *)
(* body, and pc = "done" is the state after `return bgn, mask_`.           *)
(*                                                                         *)
(* Numbers.  Decibel values are whole decibels.  A float is a record       *)
(* [nan, val]: NaN, or the number val.  The range vector holds powers of   *)
(* ten (and non-positive values), on which log10 is exact; the absorption  *)
(* coefficient is a whole number of dB per metre.  The logarithmic mean of *)
(* the resampler is computed in four-digit decimal floating point and      *)
(* rounded to the nearest decibel.                                         *)
(*                                                                         *)
(* echopy.resample (rs.twod, rs.full) is not part of the source tree; it   *)
(* is modelled from the contract that the specification gives for it.      *)
(***************************************************************************)
EXTENDS Integers, Sequences, FiniteSets, TLC

----------------------------------------------------------------------------
(* Bounds of the model.                                                    *)

\* longest i axis (rows of Sv) of the general specification
MaxI == 4
\* longest j axis (columns of Sv) of the general specification
MaxJ == 4
\* largest resampling length m or n
MaxStep == 2
\* longest i axis and j axis of the constant-grid specification
ConstMaxI == 5
ConstMaxJ == 10

----------------------------------------------------------------------------
(* Floating-point values with not-a-number.                                *)

NaN == [nan |-> TRUE, val |-> 0]
Num(x) == [nan |-> FALSE, val |-> x]
IsNaN(a) == a.nan

\* a + b and a - b; not-a-number propagates
Add(a, b) == IF a.nan \/ b.nan THEN NaN ELSE Num(a.val + b.val)
Sub(a, b) == IF a.nan \/ b.nan THEN NaN ELSE Num(a.val - b.val)
\* k * a for a plain number k
Scale(k, a) == IF a.nan THEN NaN ELSE Num(k * a.val)
\* a > b; false when either side is not-a-number
Greater(a, b) == ~a.nan /\ ~b.nan /\ a.val > b.val

\* 10^k for k >= 0
RECURSIVE Pow10(_)
Pow10(k) == IF k <= 0 THEN 1 ELSE 10 * Pow10(k - 1)

\* log10 of a positive whole number, exact on the powers of ten
RECURSIVE ILog10(_)
ILog10(x) == IF x < 10 THEN 0 ELSE 1 + ILog10(x \div 10)

\* np.log10 on a float: NaN stays NaN (its argument is never <= 0 here)
Log10(a) == IF a.nan THEN NaN ELSE Num(ILog10(a.val))

----------------------------------------------------------------------------
(* Grids: a grid is a sequence of rows, a row a sequence of floats.        *)

NRows(g) == Len(g)
NCols(g) == IF Len(g) = 0 THEN 0 ELSE Len(g[1])
Shape(g) == <<NRows(g), NCols(g)>>

\* np.ones_like(Sv) * np.nan
NaNLike(g) == [i \in 1..NRows(g) |-> [j \in 1..NCols(g) |-> NaN]]
\* np.ones_like(Sv, dtype=bool)
TrueLike(g) == [i \in 1..NRows(g) |-> [j \in 1..NCols(g) |-> TRUE]]

\* grid - np.vstack(col) and grid + np.vstack(col): col broadcast along j
SubCol(g, col) == [i \in 1..NRows(g) |-> [j \in 1..Len(g[i]) |-> Sub(g[i][j], col[i])]]
AddCol(g, col) == [i \in 1..NRows(g) |-> [j \in 1..Len(g[i]) |-> Add(g[i][j], col[i])]]

\* np.arange(start, stop, step) for whole numbers, step > 0
Arange(start, stop, step) ==
    LET len == IF stop <= start THEN 0 ELSE (stop - start + step - 1) \div step
    IN  [k \in 1..len |-> start + (k - 1) * step]

----------------------------------------------------------------------------
(* echopy.resample, from its contract.                                     *)

\* number of bins that the consecutive pairs of rvals define
NBins(rvals) == IF Len(rvals) < 2 THEN 0 ELSE Len(rvals) - 1

\* the indices of dim whose coordinate lies in bin b of rvals, in order
InBin(dim, rvals, b) ==
    SelectSeq([k \in 1..Len(dim) |-> k],
              LAMBDA k : rvals[b] <= dim[k] /\ dim[k] < rvals[b + 1])

\* the bin of rvals enclosing coordinate x, 0 when there is none
BinOf(x, rvals) ==
    IF \E b \in 1..NBins(rvals) : rvals[b] <= x /\ x < rvals[b + 1]
    THEN CHOOSE b \in 1..NBins(rvals) : rvals[b] <= x /\ x < rvals[b + 1]
    ELSE 0

\* 1000 * 10^(d/10) for d = 0..9
Mant == <<1000, 1259, 1585, 1995, 2512, 3162, 3981, 5012, 6310, 7943>>
\* 1000 * 10^((d - 0.5)/10) for d = 1..10
Thr == <<1122, 1413, 1778, 2239, 2818, 3548, 4467, 5623, 7079, 8913>>

\* dB to linear: 10^(x/10) = (man/1000) * 10^exp
Lin(x) == [man |-> Mant[(x % 10) + 1], exp |-> x \div 10]

\* linear to dB, to the nearest decibel, of (man/1000) * 10^exp, 1000 <= man < 10000
Log(man, exp) == 10 * exp + Cardinality({d \in 1..10 : Thr[d] <= man})

\* the mean of the linear values of the decibel values xs (a non-empty
\* sequence of whole numbers), back in decibels
LogMean(xs) ==
    LET n       == Len(xs)
        emax    == CHOOSE e \in {Lin(xs[k]).exp : k \in 1..n} :
                       \A k \in 1..n : Lin(xs[k]).exp <= e
        term(k) == IF emax - Lin(xs[k]).exp > 4 THEN 0
                   ELSE Lin(xs[k]).man \div Pow10(emax - Lin(xs[k]).exp)
        sum[k \in 0..n] == IF k = 0 THEN 0 ELSE sum[k - 1] + term(k)
        mean    == (sum[n] * 1000) \div n
        shift   == CHOOSE s \in 0..7 : mean \div Pow10(s) \in 1000..9999
    IN  Log(mean \div Pow10(shift), emax - 3 + shift)

\* the values of data that are not NaN, over the rows iis and columns jjs
Valid(data, iis, jjs) ==
    LET nj  == Len(jjs)
        all == [k \in 1..(Len(iis) * nj) |->
                   data[iis[((k - 1) \div nj) + 1]][jjs[((k - 1) % nj) + 1]]]
        ok  == SelectSeq(all, LAMBDA a : ~a.nan)
    IN  [k \in 1..Len(ok) |-> ok[k].val]

\* rs.twod(data, idim, jdim, irvals, jrvals, log=True)[0]: the mean, in the
\* linear domain, of the samples of each bin; NaN for a bin without a valid
\* sample
Twod(data, idim, jdim, irvals, jrvals) ==
    [bi \in 1..NBins(irvals) |-> [bj \in 1..NBins(jrvals) |->
        LET xs == Valid(data, InBin(idim, irvals, bi), InBin(jdim, jrvals, bj))
        IN  IF Len(xs) = 0 THEN NaN ELSE Num(LogMean(xs))]]

\* rs.full(datar, irvals, jrvals, idim, jdim)[0]: each fine cell gets the
\* value of its enclosing bin, NaN when there is none
FullData(datar, irvals, jrvals, idim, jdim) ==
    [i \in 1..Len(idim) |-> [j \in 1..Len(jdim) |->
        LET bi == BinOf(idim[i], irvals)
            bj == BinOf(jdim[j], jrvals)
        IN  IF bi = 0 \/ bj = 0 \/ bi > NRows(datar) \/ bj > NCols(datar)
            THEN NaN ELSE datar[bi][bj]]]

\* rs.full(datar, irvals, jrvals, idim, jdim)[1]: true where a fine cell
\* has no enclosing bin
FullMask(irvals, jrvals, idim, jdim) ==
    [i \in 1..Len(idim) |-> [j \in 1..Len(jdim) |->
        BinOf(idim[i], irvals) = 0 \/ BinOf(jdim[j], jrvals) = 0]]

----------------------------------------------------------------------------
(* The state of one call of derobertis.                                    *)

VARIABLES
    pc,            \* the block of the function body that was last executed
    Sv, iax, jax, m, n, r, alpha, bgnmax,     \* the arguments (caller's objects)
    args0,         \* the arguments as the caller passed them
    r_, TVG, Sv_noTVG, iaxrs, jaxrs,          \* the locals of the function
    Sv_noTVGrs, jbool, bgn_noTVGrs, mask,
    bgn_noTVG, mask_, bgn,
    warned,        \* the warnings emitted so far
    ret            \* the returned pair, << >> before the return

args == <<Sv, iax, jax, m, n, r, alpha, bgnmax>>
locals == <<r_, TVG, Sv_noTVG, iaxrs, jaxrs, Sv_noTVGrs, jbool, bgn_noTVGrs,
            mask, bgn_noTVG, mask_, bgn>>
vars == <<pc, args, args0, locals, warned, ret>>

----------------------------------------------------------------------------
(* The calls that are made.                                                *)

\* ranges in metres: a range vector of len entries is a run of consecutive
\* entries of RSeq that starts at one of the positions from..to
RSeq == <<-1, 0, 1, 10, 100, 1000, 10000, 100000>>
Ranges(len, from, to) ==
    {[k \in 1..len |-> Num(RSeq[s + k - 1])] :
        s \in {s \in from..to : s + len - 1 <= Len(RSeq)}}

\* an axis of len points, from origin in steps of d
Axis(len, origin, d) == [k \in 1..len |-> origin + d * (k - 1)]

\* a column of Sv with len samples
ColKinds == {"nan", "flat", "gap"}
Column(kind, len) ==
    [i \in 1..len |->
        CASE kind = "nan"  -> NaN
          [] kind = "flat" -> Num(-70)
          [] OTHER         -> IF i = 1 THEN Num(-143)
                              ELSE IF i % 2 = 0 THEN NaN ELSE Num(-73)]
\* the Sv grid whose column j is of kind kinds[j]
GridOf(kinds, len) == [i \in 1..len |-> [j \in 1..Len(kinds) |-> Column(kinds[j], len)[i]]]
ConstGrid(c, I, J) == [i \in 1..I |-> [j \in 1..J |-> Num(c)]]

Args(sv, ia, ja, mm, nn, rr, al, bm) ==
    [Sv |-> sv, iax |-> ia, jax |-> ja, m |-> mm, n |-> nn, r |-> rr,
     alpha |-> al, bgnmax |-> bm]

\* calls with any mix of columns, ranges that may be non-positive
Calls ==
    { Args(GridOf(kinds, Len(rr)), Axis(Len(rr), 0, di), Axis(Len(kinds), 5, 1),
           mm, nn, rr, al, -125) :
        kinds \in UNION {[1..J -> ColKinds] : J \in 2..MaxJ},
        rr \in UNION {Ranges(I, 1, 3) : I \in 2..MaxI},
        di \in {1, 2}, mm \in 1..MaxStep, nn \in 1..MaxStep, al \in {0, 1} }

\* calls with a constant Sv grid and strictly positive, increasing ranges
ConstCalls ==
    { Args(ConstGrid(c, Len(rr), J), Axis(Len(rr), 0, 1), Axis(J, 0, 1),
           mm, nn, rr, al, -125) :
        c \in {-70, -200}, J \in {4, ConstMaxJ},
        rr \in UNION {Ranges(I, 3, 4) : I \in 3..ConstMaxI},
        mm \in 1..MaxStep, nn \in 1..MaxStep, al \in {0, 1} }

\* derobertis(Sv, iax, jax, m, n, r, alpha, bgnmax) is entered with arguments a
Enter(a) ==
    /\ pc = "call"
    /\ Sv = a.Sv /\ iax = a.iax /\ jax = a.jax /\ m = a.m /\ n = a.n
    /\ r = a.r /\ alpha = a.alpha /\ bgnmax = a.bgnmax
    /\ args0 = a
    /\ r_ = << >> /\ TVG = << >> /\ Sv_noTVG = << >>
    /\ iaxrs = << >> /\ jaxrs = << >>
    /\ Sv_noTVGrs = << >> /\ jbool = << >> /\ bgn_noTVGrs = << >> /\ mask = << >>
    /\ bgn_noTVG = << >> /\ mask_ = << >> /\ bgn = << >>
    /\ warned = 0
    /\ ret = << >>

Init == \E a \in Calls : Enter(a)
InitConst == \E a \in ConstCalls : Enter(a)

----------------------------------------------------------------------------
(* The function body, block by block.                                      *)

\* a variant of RangeCopy that masks r<0 only: a range of 0 is kept
RangeCopy_Strict(rr) == [i \in 1..Len(rr) |-> IF rr[i].val < 0 THEN NaN ELSE rr[i]]

\* r_ = r.copy(); r_[r<=0] = np.nan
RangeCopy(rr) == [i \in 1..Len(rr) |-> IF rr[i].val <= 0 THEN NaN ELSE rr[i]]

\* TVG = 20*np.log10(r_) + 2*alpha*r_
TVGOf(rc, al) == [i \in 1..Len(rc) |-> Add(Scale(20, Log10(rc[i])), Scale(2 * al, rc[i]))]

\* a variant of CalcTVG without the copy (r_ = r): the masking writes
\* through to the caller's range vector
CalcTVG_NoCopy ==
    /\ pc = "call"
    /\ r_' = RangeCopy(r)
    /\ r' = r_'
    /\ TVG' = TVGOf(r_', alpha)
    /\ Sv_noTVG' = SubCol(Sv, TVG')
    /\ pc' = "tvg"
    /\ UNCHANGED <<Sv, iax, jax, m, n, alpha, bgnmax, args0, iaxrs, jaxrs,
                   Sv_noTVGrs, jbool, bgn_noTVGrs, mask, bgn_noTVG, mask_, bgn,
                   warned, ret>>

\* calculate TVG, subtract TVG from Sv
CalcTVG ==
    /\ pc = "call"
    /\ r_' = RangeCopy(r)
    /\ TVG' = TVGOf(r_', alpha)
    /\ Sv_noTVG' = SubCol(Sv, TVG')
    /\ pc' = "tvg"
    /\ UNCHANGED <<args, args0, iaxrs, jaxrs, Sv_noTVGrs, jbool, bgn_noTVGrs,
                   mask, bgn_noTVG, mask_, bgn, warned, ret>>

\* get resampled i/j axes
ResampleAxes ==
    /\ pc = "tvg"
    /\ iaxrs' = Arange(iax[1], iax[Len(iax)], m)
    /\ jaxrs' = Arange(jax[1], jax[Len(jax)], n)
    /\ pc' = "axes"
    /\ UNCHANGED <<args, args0, r_, TVG, Sv_noTVG, Sv_noTVGrs, jbool, bgn_noTVGrs,
                   mask, bgn_noTVG, mask_, bgn, warned, ret>>

\* a variant of Proceed with | in place of &
Proceed_Either(ia, ja) == (Len(ia) > 1) \/ (Len(ja) > 1)

\* proceed if length of resampled axes is greater than 1
Proceed(ia, ja) == (Len(ia) > 1) /\ (Len(ja) > 1)

\* resample Sv_noTVG into m by n bins
Resample ==
    /\ pc = "axes"
    /\ Proceed(iaxrs, jaxrs)
    /\ Sv_noTVGrs' = Twod(Sv_noTVG, iax, jax, iaxrs, jaxrs)
    /\ pc' = "resampled"
    /\ UNCHANGED <<args, args0, r_, TVG, Sv_noTVG, iaxrs, jaxrs, jbool, bgn_noTVGrs,
                   mask, bgn_noTVG, mask_, bgn, warned, ret>>

\* np.isnan(g).all(axis=0)
AllNaNColumns(g) == [c \in 1..NCols(g) |-> \A k \in 1..NRows(g) : IsNaN(g[k][c])]

\* g[:, jb] = 0
ZeroColumns(g, jb) == [k \in 1..NRows(g) |-> [c \in 1..Len(g[k]) |->
                          IF jb[c] THEN Num(0) ELSE g[k][c]]]

\* a variant of NanMin without the axis (np.nanmin(g)): every column gets
\* the least value of the whole grid
NanMin_NoAxis(g) ==
    [c \in 1..NCols(g) |->
        LET vs == {g[k][d].val : <<k, d>> \in {kd \in (1..NRows(g)) \X (1..NCols(g)) :
                                                  ~IsNaN(g[kd[1]][kd[2]])}}
        IN  IF vs = {} THEN NaN ELSE Num(CHOOSE v \in vs : \A w \in vs : v <= w)]

\* a variant of NanMin that takes the greatest value (np.nanmax(g, 0))
NanMin_Max(g) ==
    [c \in 1..NCols(g) |->
        LET vs == {g[k][c].val : k \in {k \in 1..NRows(g) : ~IsNaN(g[k][c])}}
        IN  IF vs = {} THEN NaN ELSE Num(CHOOSE v \in vs : \A w \in vs : v >= w)]

\* np.nanmin(g, 0): per column, the least value that is not NaN
NanMin(g) ==
    [c \in 1..NCols(g) |->
        LET vs == {g[k][c].val : k \in {k \in 1..NRows(g) : ~IsNaN(g[k][c])}}
        IN  IF vs = {} THEN NaN ELSE Num(CHOOSE v \in vs : \A w \in vs : v <= w)]

\* a variant of RestoreNaN that leaves the row as it is
RestoreNaN_Skip(row, jb) == row

\* row[jb] = np.nan
RestoreNaN(row, jb) == [c \in 1..Len(row) |-> IF jb[c] THEN NaN ELSE row[c]]

\* np.tile(row, [rows, 1])
Tile(row, rows) == [k \in 1..rows |-> row]

\* compute background noise as the minimum value per interval in Sv_noTVGrs
MinPerInterval ==
    /\ pc = "resampled"
    /\ jbool' = AllNaNColumns(Sv_noTVGrs)
    /\ Sv_noTVGrs' = ZeroColumns(Sv_noTVGrs, jbool')
    /\ bgn_noTVGrs' = Tile(RestoreNaN(NanMin(Sv_noTVGrs'), jbool'), NRows(Sv_noTVGrs'))
    /\ pc' = "min"
    /\ UNCHANGED <<args, args0, r_, TVG, Sv_noTVG, iaxrs, jaxrs,
                   mask, bgn_noTVG, mask_, bgn, warned, ret>>

\* a variant of MaskedGreater that masks nothing
MaskedGreater_Never(g, value) == [k \in 1..NRows(g) |-> [c \in 1..Len(g[k]) |-> FALSE]]

\* a variant of MaskedGreater that masks the values below the limit
\* (np.ma.masked_less)
MaskedGreater_Less(g, value) == [k \in 1..NRows(g) |-> [c \in 1..Len(g[k]) |->
                                    Greater(Num(value), g[k][c])]]

\* np.ma.masked_greater(g, value).mask; when no entry is greater numpy
\* gives the scalar nomask (False), which selects no entry either
MaskedGreater(g, value) == [k \in 1..NRows(g) |-> [c \in 1..Len(g[k]) |->
                               Greater(g[k][c], Num(value))]]

\* g[mk] = value
Assign(g, mk, value) == [k \in 1..NRows(g) |-> [c \in 1..Len(g[k]) |->
                            IF mk[k][c] THEN Num(value) ELSE g[k][c]]]

\* prevent to exceed the maximum background noise expected
Clip ==
    /\ pc = "min"
    /\ mask' = MaskedGreater(bgn_noTVGrs, bgnmax)
    /\ bgn_noTVGrs' = Assign(bgn_noTVGrs, mask', bgnmax)
    /\ pc' = "clipped"
    /\ UNCHANGED <<args, args0, r_, TVG, Sv_noTVG, iaxrs, jaxrs, Sv_noTVGrs, jbool,
                   bgn_noTVG, mask_, bgn, warned, ret>>

\* a variant of FullAddTVG that hands on the coarse grid and the clip mask,
\* without rs.full
FullAddTVG_Coarse ==
    /\ pc = "clipped"
    /\ bgn_noTVG' = bgn_noTVGrs
    /\ mask_' = mask
    /\ bgn' = bgn_noTVG'
    /\ pc' = "full"
    /\ UNCHANGED <<args, args0, r_, TVG, Sv_noTVG, iaxrs, jaxrs, Sv_noTVGrs, jbool,
                   bgn_noTVGrs, mask, warned, ret>>

\* a variant of FullAddTVG that also masks the cells whose estimate is NaN
FullAddTVG_MaskNaN ==
    /\ pc = "clipped"
    /\ bgn_noTVG' = FullData(bgn_noTVGrs, iaxrs, jaxrs, iax, jax)
    /\ bgn' = AddCol(bgn_noTVG', TVG)
    /\ mask_' = [i \in 1..Len(iax) |-> [j \in 1..Len(jax) |->
                    FullMask(iaxrs, jaxrs, iax, jax)[i][j] \/ IsNaN(bgn'[i][j])]]
    /\ pc' = "full"
    /\ UNCHANGED <<args, args0, r_, TVG, Sv_noTVG, iaxrs, jaxrs, Sv_noTVGrs, jbool,
                   bgn_noTVGrs, mask, warned, ret>>

\* resample background noise to previous Sv resolution, and add TVG
FullAddTVG ==
    /\ pc = "clipped"
    /\ bgn_noTVG' = FullData(bgn_noTVGrs, iaxrs, jaxrs, iax, jax)
    /\ mask_' = FullMask(iaxrs, jaxrs, iax, jax)
    /\ bgn' = AddCol(bgn_noTVG', TVG)
    /\ pc' = "full"
    /\ UNCHANGED <<args, args0, r_, TVG, Sv_noTVG, iaxrs, jaxrs, Sv_noTVGrs, jbool,
                   bgn_noTVGrs, mask, warned, ret>>

\* return background noise as NAN values otherwise
Otherwise ==
    /\ pc = "axes"
    /\ ~Proceed(iaxrs, jaxrs)
    /\ bgn' = NaNLike(Sv)
    /\ mask_' = TrueLike(Sv)
    /\ warned' = warned + 1
    /\ pc' = "nan"
    /\ UNCHANGED <<args, args0, r_, TVG, Sv_noTVG, iaxrs, jaxrs, Sv_noTVGrs, jbool,
                   bgn_noTVGrs, mask, bgn_noTVG, ret>>

\* return bgn, mask_
Return ==
    /\ pc \in {"full", "nan"}
    /\ ret' = <<bgn, mask_>>
    /\ pc' = "done"
    /\ UNCHANGED <<args, args0, locals, warned>>

Next ==
    \/ CalcTVG
    \/ ResampleAxes
    \/ Resample
    \/ MinPerInterval
    \/ Clip
    \/ FullAddTVG
    \/ Otherwise
    \/ Return

Spec == Init /\ [][Next]_vars
SpecConst == InitConst /\ [][Next]_vars

----------------------------------------------------------------------------
(* Vocabulary of the properties.                                           *)

Rows == 1..Len(iax)
Cols == 1..Len(jax)
SpanI == iax[Len(iax)] - iax[1]
SpanJ == jax[Len(jax)] - jax[1]

\* the call has returned
Returned == pc = "done"
\* the call has returned along the estimating (non-degenerate) path
Estimated == pc = "done" /\ warned = 0
\* the function body has not stopped short of its return
Running == pc # "done" => ENABLED Next

\* the blocks that compute with the range vector (the TVG, its addition to
\* the estimate) and the degenerate branch do not stop the call
RangeStepsRun ==
    /\ pc = "call" => ENABLED CalcTVG
    /\ pc = "clipped" => ENABLED FullAddTVG
    /\ (pc = "axes" /\ ~Proceed(iaxrs, jaxrs)) => ENABLED Otherwise
    /\ pc \in {"full", "nan"} => ENABLED Return

\* the resampled TVG-corrected grid as rs.twod returned it
Resampled == Twod(Sv_noTVG, iax, jax, iaxrs, jaxrs)
\* the coarse i-bins and j-bins
IBins == 1..NBins(iaxrs)
JBins == 1..NBins(jaxrs)
\* coarse j-bin c has no valid sample in any i-bin
NoValidSample(c) ==
    \A i \in Rows, j \in Cols :
        (BinOf(iax[i], iaxrs) # 0 /\ BinOf(jax[j], jaxrs) = c) => IsNaN(Sv_noTVG[i][j])
\* a is the least of the values of column c of grid g that are not NaN
LeastOfColumn(a, g, c) ==
    /\ ~IsNaN(a)
    /\ \E k \in 1..NRows(g) : g[k][c] = a
    /\ \A k \in 1..NRows(g) : ~IsNaN(g[k][c]) => a.val <= g[k][c].val
\* the noise floor of j-bin c before the clip: NaN, or the least value of
\* the column
IsFloor(a, g, c) ==
    IF \A k \in 1..NRows(g) : IsNaN(g[k][c]) THEN IsNaN(a)
    ELSE LeastOfColumn(a, g, c)
\* the noise floors of the j-bins, from the resampled grid
Floors ==
    LET g == Resampled
    IN  [c \in JBins |-> CHOOSE a \in {NaN} \cup {g[k][c] : k \in 1..NRows(g)} :
                             IsFloor(a, g, c)]
\* the smaller of two whole numbers
Min(a, b) == IF a <= b THEN a ELSE b

----------------------------------------------------------------------------
(* C1. Degenerate resampling axes.                                         *)

\* C1: when m >= iax[-1]-iax[0] or n >= jax[-1]-jax[0], the call never enters
\* the estimating path and never stops short of its return; it returns a bgn
\* whose every entry is not-a-number and a mask whose every entry is true,
\* and it has emitted exactly one warning.
C1_DegenerateAxes ==
    (m >= SpanI \/ n >= SpanJ) =>
        /\ Running
        /\ pc \notin {"resampled", "min", "clipped", "full"}
        /\ Returned =>
            /\ \A i \in Rows, j \in Cols : IsNaN(ret[1][i][j]) /\ ret[2][i][j] = TRUE
            /\ Shape(ret[1]) = Shape(Sv)
            /\ warned = 1

\* a returned call in which only the i axis is degenerate
C1_Witness ==
    /\ Returned
    /\ m >= SpanI /\ n < SpanJ /\ Len(jaxrs) > 1
    /\ warned = 1
    /\ \E i \in Rows, j \in Cols : ~IsNaN(Sv_noTVG[i][j])

----------------------------------------------------------------------------
(* C2. Shapes.                                                             *)

\* C2: on both paths the returned bgn grid and the returned mask grid have
\* exactly the shape (I, J) of Sv: I rows, each of J entries.
C2_Shapes ==
    Returned =>
        /\ Len(ret[1]) = Len(Sv) /\ Len(ret[2]) = Len(Sv)
        /\ \A i \in 1..Len(Sv) :
               Len(ret[1][i]) = Len(Sv[i]) /\ Len(ret[2][i]) = Len(Sv[i])

\* a call returned along the estimating path whose coarse grid is smaller
\* than Sv
C2_Witness ==
    /\ Estimated
    /\ Shape(bgn_noTVGrs) # Shape(Sv)
    /\ Shape(ret[1]) = <<Len(r), Len(jax)>>

----------------------------------------------------------------------------
(* C3. The ceiling.                                                        *)

\* C3 as stated: every entry of the returned bgn that is not not-a-number
\* is at most bgnmax.
C3_BelowBgnmax ==
    Returned => \A i \in Rows, j \in Cols :
                    ~IsNaN(ret[1][i][j]) => ret[1][i][j].val <= bgnmax

\* C3 as amended: every entry of the returned bgn that is not not-a-number
\* is at most bgnmax + TVG[i]; the ceiling bounds the estimate before TVG
\* is added back.
C3_BelowBgnmaxPlusTVG ==
    Returned => \A i \in Rows, j \in Cols :
                    ~IsNaN(ret[1][i][j]) =>
                        /\ ~IsNaN(TVG[i])
                        /\ ret[1][i][j].val <= bgnmax + TVG[i].val

\* a returned estimate that the clip brought down to bgnmax and that lies
\* above bgnmax once TVG is added
C3_Witness ==
    /\ Estimated
    /\ LET fl == Floors
       IN  \E i \in Rows, j \in Cols :
              /\ ~IsNaN(ret[1][i][j])
              /\ ret[1][i][j].val = bgnmax + TVG[i].val
              /\ ret[1][i][j].val > bgnmax
              /\ Greater(fl[BinOf(jax[j], jaxrs)], Num(bgnmax))

----------------------------------------------------------------------------
(* C4. Non-positive ranges.                                                *)

\* C4: on both paths every entry of a row i with r[i] <= 0 of the returned
\* bgn is not-a-number, and the call does not stop short of its return.
C4_InvalidRange ==
    /\ RangeStepsRun
    /\ Returned => \A i \in Rows : r[i].val <= 0 =>
                       \A j \in Cols : IsNaN(ret[1][i][j])

\* an estimate with a row of range 0 whose cells have a noise floor, next
\* to a row with numbers in it
C4_Witness ==
    /\ Estimated
    /\ \E i \in Rows, j \in Cols :
          r[i].val = 0 /\ ~IsNaN(bgn_noTVG[i][j]) /\ IsNaN(ret[1][i][j])
    /\ \E i \in Rows, j \in Cols : ~IsNaN(ret[1][i][j])

----------------------------------------------------------------------------
(* C5. A constant Sv grid (specification SpecConst).                       *)

\* Sv is constant
ConstValue == Sv[1][1]
\* the TVG-corrected values of the rows of i-bin b, for a constant Sv
BinValues(b) ==
    LET rows == InBin(iax, iaxrs, b)
    IN  [k \in 1..Len(rows) |-> ConstValue.val - TVG[rows[k]].val]
\* the least, over the i-bins that hold a row, of the bin's mean
ConstFloor ==
    LET means == {LogMean(BinValues(b)) : b \in {b \in IBins : Len(BinValues(b)) > 0}}
    IN  CHOOSE v \in means : \A w \in means : v <= w

\* C5 as stated: for a constant Sv grid, strictly positive increasing
\* ranges and non-degenerate axes, the returned bgn equals the constant at
\* every cell whose mask is false.
C5_Reconstructs ==
    Estimated => \A i \in Rows, j \in Cols :
                     ~ret[2][i][j] => ret[1][i][j] = ConstValue

\* C5 as amended: at every cell whose mask is false the returned bgn is
\* min(bgnmax, F) + TVG[i], where F is the least, over the coarse i-bins, of
\* the bin's mean of (constant - TVG); it is not the constant.
C5_FloorPlusTVG ==
    Estimated => LET v == Min(bgnmax, ConstFloor)
                 IN  \A i \in Rows, j \in Cols :
                         ~ret[2][i][j] => ret[1][i][j] = Num(v + TVG[i].val)

\* the call of the example (Sv constant -70, 5 by 10, m = 1, n = 2) has
\* returned, with an unmasked cell that is not -70
C5_Witness ==
    /\ Estimated
    /\ ConstValue = Num(-70) /\ Len(iax) = 5 /\ Len(jax) = 10 /\ m = 1 /\ n = 2
    /\ \A i \in Rows : r[i].val > 0 /\ (i > 1 => TVG[i].val > TVG[i - 1].val)
    /\ \E i \in Rows, j \in Cols : ~ret[2][i][j] /\ ret[1][i][j] # ConstValue

----------------------------------------------------------------------------
(* C6. The arguments.                                                      *)

\* C6: at every point of the call, and after it, Sv, iax, jax, r (and the
\* scalars) hold the values the caller passed; the replacement of
\* non-positive ranges and of all-invalid columns acts on r_ and Sv_noTVGrs.
C6_InputsUnchanged == Args(Sv, iax, jax, m, n, r, alpha, bgnmax) = args0

\* a returned call in which a non-positive range was replaced in r_ and an
\* all-invalid column was replaced by 0 in Sv_noTVGrs
C6_Witness ==
    /\ Estimated
    /\ \E i \in Rows : r[i].val <= 0 /\ IsNaN(r_[i])
    /\ \E c \in JBins : jbool[c] /\ \A k \in IBins : Sv_noTVGrs[k][c] = Num(0)

----------------------------------------------------------------------------
(* C7. A j-bin without a valid sample.                                     *)

\* C7: on the estimating path, a coarse j-bin without a valid sample in any
\* i-bin has a not-a-number noise floor after the minimum step and after the
\* clip (never 0, never bgnmax), and every fine cell mapped to it is
\* not-a-number in the returned bgn; the floor of every other j-bin is the
\* least value of its column of the resampled grid, as without the
\* replacement.
C7_AllInvalidBin ==
    (pc \in {"min", "clipped", "full"} \/ Estimated) =>
        \A c \in JBins :
            IF NoValidSample(c)
            THEN /\ \A k \in IBins : IsNaN(bgn_noTVGrs[k][c])
                 /\ (pc \in {"full", "done"}) =>
                        \A i \in Rows, j \in Cols :
                            BinOf(jax[j], jaxrs) = c => IsNaN(bgn[i][j])
                 /\ Returned =>
                        \A i \in Rows, j \in Cols :
                            BinOf(jax[j], jaxrs) = c => IsNaN(ret[1][i][j])
            ELSE pc = "min" =>
                     LET g == Resampled
                     IN  \A k \in IBins : LeastOfColumn(bgn_noTVGrs[k][c], g, c)

\* a returned estimate with a j-bin without a valid sample, replaced by 0
\* on the way (0 > bgnmax), next to a j-bin with a noise floor; a cell of
\* the first has a valid range and is unmasked
C7_Witness ==
    /\ Estimated
    /\ bgnmax < 0
    /\ \E c \in JBins : ~NoValidSample(c) /\ ~IsNaN(bgn_noTVGrs[1][c])
    /\ \E c \in JBins :
          /\ NoValidSample(c)
          /\ \A k \in IBins : Sv_noTVGrs[k][c] = Num(0)
          /\ \E i \in Rows, j \in Cols :
                /\ BinOf(jax[j], jaxrs) = c
                /\ ~ret[2][i][j] /\ ~IsNaN(TVG[i]) /\ IsNaN(ret[1][i][j])

----------------------------------------------------------------------------
(* C8. The minimum along the range axis.                                   *)

\* C8: after the minimum step the coarse noise grid has the rows of the
\* resampled grid; in each j-bin with a valid sample its entry is, in every
\* row, the least of the values of that j-bin's own column of the resampled
\* grid that are not not-a-number, so the grid is constant along i.
C8_MinAlongRange ==
    pc = "min" =>
        LET g == Resampled
        IN  /\ Shape(bgn_noTVGrs) = Shape(g)
            /\ \A c \in JBins :
                  /\ \A k \in IBins : bgn_noTVGrs[k][c] = bgn_noTVGrs[1][c]
                  /\ ~NoValidSample(c) =>
                         \A k \in IBins : LeastOfColumn(bgn_noTVGrs[k][c], g, c)

\* after the minimum step: two j-bins with different floors, one of them
\* with different values along i and its least value not in the first row
C8_Witness ==
    /\ pc = "min"
    /\ LET g == Resampled
       IN  \E c, d \in JBins :
              /\ ~IsNaN(bgn_noTVGrs[1][c]) /\ ~IsNaN(bgn_noTVGrs[1][d])
              /\ bgn_noTVGrs[1][c] # bgn_noTVGrs[1][d]
              /\ \E k \in IBins : k > 1 /\ g[k][c] = bgn_noTVGrs[1][c]
              /\ ~IsNaN(g[1][c]) /\ g[1][c] # bgn_noTVGrs[1][c]

----------------------------------------------------------------------------
(* C9. The clip.                                                           *)

\* after the clip every entry of the coarse noise grid is bgnmax where the
\* floor of its j-bin was above bgnmax, and the floor itself otherwise
ClipOneSided ==
    (pc \in {"clipped", "full"} \/ Estimated) =>
        LET fl == Floors
        IN  \A c \in JBins, k \in IBins :
                bgn_noTVGrs[k][c] =
                    IF Greater(fl[c], Num(bgnmax)) THEN Num(bgnmax) ELSE fl[c]

\* bgn[i,j] - TVG[i] = min(floor of the j-bin, bgnmax) <= bgnmax
AtMostCeiling(fl, i, j) ==
    LET d == Sub(ret[1][i][j], TVG[i])
        f == fl[BinOf(jax[j], jaxrs)]
    IN  /\ ~IsNaN(d)
        /\ d.val <= bgnmax
        /\ ~IsNaN(f) => d.val = Min(f.val, bgnmax)

\* C9 as stated: the clip is one-sided, and for every cell of the returned
\* grid that is unmasked and has r[i] > 0, bgn[i,j] - TVG[i] is
\* min(noise floor of the enclosing j-bin, bgnmax), which is <= bgnmax.
C9_ClipOriginal ==
    /\ ClipOneSided
    /\ Estimated => LET fl == Floors
                    IN  \A i \in Rows, j \in Cols :
                            (~ret[2][i][j] /\ r[i].val > 0) => AtMostCeiling(fl, i, j)

\* C9 as amended: the clip is one-sided, and for every cell of the returned
\* grid that is unmasked, has r[i] > 0 and lies in a j-bin whose noise floor
\* is not not-a-number, bgn[i,j] - TVG[i] is min(noise floor of the
\* enclosing j-bin, bgnmax), which is <= bgnmax.
C9_ClipOneSided ==
    /\ ClipOneSided
    /\ Estimated => LET fl == Floors
                    IN  \A i \in Rows, j \in Cols :
                            (/\ ~ret[2][i][j]
                             /\ r[i].val > 0
                             /\ ~IsNaN(fl[BinOf(jax[j], jaxrs)])) => AtMostCeiling(fl, i, j)

\* a returned estimate with a floor above bgnmax (clipped) and a floor
\* below bgnmax (kept), each under an unmasked cell of positive range
C9_Witness ==
    /\ Estimated
    /\ LET fl == Floors
       IN  /\ \E i \in Rows, j \in Cols :
                 /\ ~ret[2][i][j] /\ r[i].val > 0
                 /\ Greater(fl[BinOf(jax[j], jaxrs)], Num(bgnmax))
                 /\ Sub(ret[1][i][j], TVG[i]) = Num(bgnmax)
           /\ \E i \in Rows, j \in Cols :
                 /\ ~ret[2][i][j] /\ r[i].val > 0
                 /\ Greater(Num(bgnmax), fl[BinOf(jax[j], jaxrs)])
                 /\ Sub(ret[1][i][j], TVG[i]) = fl[BinOf(jax[j], jaxrs)]

----------------------------------------------------------------------------
(* C10. The mask.                                                          *)

\* the last value of np.arange(ax[0], ax[-1], step), from ax and step alone
LastEdge(ax, step) == ax[1] + step * ((ax[Len(ax)] - ax[1] - 1) \div step)
\* the mask that the axes and the resampling lengths determine
GeometryMask ==
    [i \in Rows |-> [j \in Cols |->
        IF SpanI <= m \/ SpanJ <= n THEN TRUE
        ELSE iax[i] >= LastEdge(iax, m) \/ jax[j] >= LastEdge(jax, n)]]

\* C10: the returned mask is a function of iax, jax, m and n alone (so two
\* calls that agree on them return the same mask): all true on the
\* degenerate path, and otherwise true exactly at the cells at or beyond
\* the last resampled axis value, which is the mask of the up-sampling
\* step; a not-a-number estimate does not set it.
C10_MaskFromGeometry == Returned => ret[2] = GeometryMask

\* a returned estimate with two unmasked not-a-number cells: one of a
\* non-positive range, one of a j-bin without a valid sample
C10_Witness ==
    /\ Estimated
    /\ ret[2] = FullMask(iaxrs, jaxrs, iax, jax)
    /\ \E i \in Rows, j \in Cols :
          ~ret[2][i][j] /\ r[i].val <= 0 /\ IsNaN(ret[1][i][j])
    /\ \E i \in Rows, j \in Cols :
          /\ ~ret[2][i][j] /\ r[i].val > 0 /\ IsNaN(ret[1][i][j])
          /\ NoValidSample(BinOf(jax[j], jaxrs))
    /\ \E i \in Rows, j \in Cols : ret[2][i][j]

====
